---- MODULE Spec2Model ----
(***************************************************************************)
(* Model of the notebook harmonie_forecast_to_dfs2.ipynb: the pipeline     *)
(* crop -> unit conversion -> de-accumulation -> PET (Makkink and          *)
(* Penman-Monteith, with the daylight lookup) -> export.                   *)
(*                                                                         *)
(* One run of the notebook ("run all") is one behaviour; pc is the index   *)
(* of the next statement in Program, and an uncaught exception ends the    *)
(* run (pc = 0, err names the exception).                                  *)
(*                                                                         *)
(* Floating point values are modelled as exact decimals m * 10^e (or NaN); *)
(* the two PET equations, which divide and call exp, are evaluated in      *)
(* fixed point with four decimals.                                         *)
(***************************************************************************)
EXTENDS Integers, Sequences, FiniteSets, TLC

\* ------------------------------------------------------------- bounds
\* Number of forecast timesteps of the time axis.
NT == 4
\* Rows and columns of the reprojected grid (before the crop).
NYRaw == 3
NXRaw == 2

\* ------------------------------------------------------------ numbers
RECURSIVE Pow10(_)
Pow10(k) == IF k <= 0 THEN 1 ELSE 10 * Pow10(k - 1)

\* not-a-number
NaN == [nan |-> TRUE, m |-> 0, e |-> 0]

\* The decimal m * 10^e in canonical form (no trailing zero in m).
RECURSIVE Dec(_, _)
Dec(m, e) ==
    IF m = 0 THEN [nan |-> FALSE, m |-> 0, e |-> 0]
    ELSE IF m % 10 = 0 THEN Dec(m \div 10, e + 1)
    ELSE [nan |-> FALSE, m |-> m, e |-> e]

Min2(a, b) == IF a <= b THEN a ELSE b

\* The mantissa of a at exponent e, e <= a.e.
MantAt(a, e) == a.m * Pow10(a.e - e)

\* a + b, a - b, a * b of floats: NaN if an operand is NaN.
DAdd(a, b) ==
    IF a.nan \/ b.nan THEN NaN
    ELSE LET e == Min2(a.e, b.e) IN Dec(MantAt(a, e) + MantAt(b, e), e)

DSub(a, b) ==
    IF a.nan \/ b.nan THEN NaN
    ELSE LET e == Min2(a.e, b.e) IN Dec(MantAt(a, e) - MantAt(b, e), e)

DMul(a, b) ==
    IF a.nan \/ b.nan THEN NaN
    ELSE Dec(a.m * b.m, a.e + b.e)

\* x.clip(min=0): a negative number becomes 0, NaN stays NaN.
ClipMin0(a) == IF a.nan THEN a ELSE IF a.m < 0 THEN Dec(0, 0) ELSE a

\* v >= 0 as the float comparison decides it: false for NaN.
DGe0(a) == ~a.nan /\ a.m >= 0

\* ------------------------------------------------- arrays (time, y, x)
ArrAdd(A, B) ==
    [t \in DOMAIN A |-> [j \in DOMAIN A[t] |-> [k \in DOMAIN A[t][j] |->
        DAdd(A[t][j][k], B[t][j][k])]]]

ArrScale(A, c) ==
    [t \in DOMAIN A |-> [j \in DOMAIN A[t] |-> [k \in DOMAIN A[t][j] |->
        DMul(A[t][j][k], c)]]]

ArrOffset(A, c) ==
    [t \in DOMAIN A |-> [j \in DOMAIN A[t] |-> [k \in DOMAIN A[t][j] |->
        DSub(A[t][j][k], c)]]]

ArrClip(A) ==
    [t \in DOMAIN A |-> [j \in DOMAIN A[t] |-> [k \in DOMAIN A[t][j] |->
        ClipMin0(A[t][j][k])]]]

\* data[t] - data[t-1] of two (y, x) slices.
SliceSub(P, Q) ==
    [j \in DOMAIN P |-> [k \in DOMAIN P[j] |-> DSub(P[j][k], Q[j][k])]]

SliceScale(P, c) ==
    [j \in DOMAIN P |-> [k \in DOMAIN P[j] |-> DMul(P[j][k], c)]]

\* ------------------------------------------------------ the parameters
\* param: the ten exported variables, in dictionary order.
param == << "temp", "pres", "grad", "precip", "ws", "rh", "nlwrf", "nswrf",
            "makkink", "penman_monteith" >>

\* The eight base variables that are downloaded (len(values) > 4).
BaseVars == { "temp", "pres", "grad", "precip", "ws", "rh", "nlwrf", "nswrf" }

accumulated_vars == << "grad", "nswrf", "nlwrf", "precip" >>

\* ------------------------------------------------------------- inputs
\* Cumulative series of the provider, in units of 10^5 (J m-2, or 10^-5 mm
\* for precip); series s at timestep t (1-based).  Series 0 is the spec's
\* example 0, 5, 5, 12; series 1 has a negative residual; series 2 has a
\* not-a-number gap; series 3 decreases (net long-wave radiation).
CumSeriesIds == 0 .. 3

CumValue(s, t) ==
    CASE s = 0 -> IF t <= 4 THEN Dec(<<0, 5, 5, 12>>[t], 5) ELSE Dec(12 + 3 * (t - 4), 5)
      [] s = 1 -> IF t <= 4 THEN Dec(<<3, 7, 6, 10>>[t], 5) ELSE Dec(10 + (t - 4), 5)
      [] s = 2 -> IF t = 2 THEN NaN ELSE Dec(2 * t + 1, 5)
      [] OTHER -> Dec(0 - (4 * t + (t % 2)), 5)

\* Instantaneous fields: weather w gives (temp K, pres Pa, rh %, ws m/s).
WeatherIds == 0 .. 2

WeatherValue(w, var) ==
    CASE w = 0 -> (CASE var = "temp" -> Dec(28815, -2) [] var = "pres" -> Dec(101325, 0)
                     [] var = "rh" -> Dec(70, 0) [] OTHER -> Dec(3, 0))
      [] w = 1 -> (CASE var = "temp" -> Dec(26780, -2) [] var = "pres" -> Dec(99800, 0)
                     [] var = "rh" -> Dec(95, 0) [] OTHER -> Dec(0, 0))
      [] OTHER -> (CASE var = "temp" -> NaN [] var = "pres" -> Dec(100200, 0)
                     [] var = "rh" -> Dec(40, 0) [] OTHER -> Dec(65, -1))

IsCumulative(var) == \E n \in DOMAIN accumulated_vars : accumulated_vars[n] = var

\* The reprojected dataset: variable var of a run whose inputs are chosen by
\* cum (a series per cumulative variable) and w (the weather).
InputField(var, cum, w) ==
    [t \in 1 .. NT |-> [j \in 1 .. NYRaw |-> [k \in 1 .. NXRaw |->
        IF IsCumulative(var)
        THEN CumValue((cum[var] + j + k) % Cardinality(CumSeriesIds), t)
        ELSE WeatherValue((w + t + j + k) % Cardinality(WeatherIds), var)]]]

\* ------------------------------------------------------------ the grid
Resolution == 2000
XMin == 440000
XMax == 900000
YMin == 6035000
YMax == 6484487

\* x ascending, y descending, as the reprojection returns them.
GridX(x0) == [k \in 1 .. NXRaw |-> x0 + Resolution * (k - 1)]
GridY(ytop) == [j \in 1 .. NYRaw |-> ytop - Resolution * (j - 1)]

\* The indices 1..n that are in S, ascending.
RECURSIVE IdxSeq(_, _)
IdxSeq(S, n) ==
    IF n = 0 THEN << >>
    ELSE IF n \in S THEN Append(IdxSeq(S, n - 1), n) ELSE IdxSeq(S, n - 1)

Pick(seq, idx) == [i \in 1 .. Len(idx) |-> seq[idx[i]]]

mask_x(x) == { k \in 1 .. Len(x) : x[k] >= XMin /\ x[k] <= XMax }
mask_y(y) == { j \in 1 .. Len(y) : y[j] >= YMin /\ y[j] <= YMax }

\* ds.where(mask, drop=True) keeps the rows and columns that hold a cell of
\* the mask; the mask is the product of mask_y and mask_x.
KeptRows(x, y) == IF mask_x(x) = {} THEN << >> ELSE IdxSeq(mask_y(y), Len(y))
KeptCols(x, y) == IF mask_y(y) = {} THEN << >> ELSE IdxSeq(mask_x(x), Len(x))

CropField(A, x, y) ==
    [t \in DOMAIN A |-> [j \in 1 .. Len(KeptRows(x, y)) |->
        [k \in 1 .. Len(KeptCols(x, y)) |-> A[t][KeptRows(x, y)[j]][KeptCols(x, y)[k]]]]]

\* ------------------------------------------------------- the time axis
\* A timestamp is the number of minutes since 00:00 of day 0, as the
\* provider labels it (UTC: the model run ID ends in Z); the axis is hourly.
MinutesPerDay == 24 * 60

Date(ts) == ts \div MinutesPerDay
Hour(ts) == (ts % MinutesPerDay) \div 60
Minute(ts) == ts % 60

TimeAxis(start) == [i \in 1 .. NT |-> start + 60 * (i - 1)]

\* The calendar of the run in Europe/Copenhagen: standard time throughout,
\* daylight-saving time throughout, or day 1 is the day the clocks change
\* (at 01:00 UTC: 02:00 -> 03:00 local in spring, 03:00 -> 02:00 in autumn).
Calendars == { "standard", "summer", "spring", "autumn" }

GapStart == MinutesPerDay + 2 * 60
GapEnd == MinutesPerDay + 3 * 60
ChangeUtc == MinutesPerDay + 60

\* copenhagen_tz.dst(ts_datetime, is_dst=None): the naive timestamp is
\* localized as wall-clock time; pytz raises for a wall-clock time that
\* does not exist or is ambiguous.
TzDst(calendar, ts) ==
    CASE calendar = "standard" -> "std"
      [] calendar = "summer" -> "dst"
      [] calendar = "spring" ->
            IF ts < GapStart THEN "std"
            ELSE IF ts < GapEnd THEN "NonExistentTimeError" ELSE "dst"
      [] OTHER ->
            IF ts < GapStart THEN "dst"
            ELSE IF ts < GapEnd THEN "AmbiguousTimeError" ELSE "std"

\* Whether daylight-saving time is in effect at the UTC instant ts.
DstInEffect(calendar, ts) ==
    CASE calendar = "standard" -> FALSE
      [] calendar = "summer" -> TRUE
      [] calendar = "spring" -> ts >= ChangeUtc
      [] OTHER -> ts < ChangeUtc

\* ------------------------------------------------- the sunrise-sunset API
\* A response's results: sunrise and sunset as 12-hour clock strings
\* "h:mm:ss AM|PM" (UTC), here their four fields.
Clock(h, mi, s, pm) == [h12 |-> h, mi |-> mi, s |-> s, pm |-> pm]

SunTable ==
    << [sunrise |-> Clock(2, 30, 15, FALSE), sunset |-> Clock(7, 55, 40, TRUE)],
       [sunrise |-> Clock(5, 0, 20, FALSE), sunset |-> Clock(5, 0, 45, TRUE)],
       [sunrise |-> Clock(7, 35, 0, FALSE), sunset |-> Clock(12, 40, 10, TRUE)] >>

\* The response for date d in a run whose almanac starts at entry sun.
ApiResults(sun, d) == SunTable[((sun + d) % Len(SunTable)) + 1]

\* datetime.strptime(s, '%I:%M:%S %p').time(): hour and minute, 24-hour clock.
Strptime(c) == [hour |-> (c.h12 % 12) + (IF c.pm THEN 12 ELSE 0), minute |-> c.mi]

\* The ways a request can fail: requests.get raises, the body is not JSON
\* with a results object, a time string does not parse.
LookupFailures == { "ConnectionError", "JSONDecodeError", "ValueError" }

\* sunrise.hour + sunrise.minute / 60.0 + daylight, in minutes.
DecimalHour(c, daylight) == 60 * Strptime(c).hour + Strptime(c).minute + 60 * daylight

\* One iteration of get_daylight_factors once the response is in: the pair
\* (sunrise_hour, sunset_hour) in minutes.
DaylightOffset(dst) == IF dst = "dst" THEN 2 ELSE 1

DaylightPair(r, dst) ==
    << DecimalHour(r.sunrise, DaylightOffset(dst)), DecimalHour(r.sunset, DaylightOffset(dst)) >>

\* hour = ts.hour + ts.minute / 60, in minutes.
HourOf(ts) == 60 * Hour(ts) + Minute(ts)

\* sunrise <= hour < sunset
IsDayClosed(pair, ts) == pair[1] < HourOf(ts) /\ HourOf(ts) <= pair[2]
IsDay(pair, ts) == pair[1] <= HourOf(ts) /\ HourOf(ts) < pair[2]

\* The G factor of a timestep: 0.1 by day, 0.5 by night.
GFactor(pair, ts) == IF IsDay(pair, ts) THEN Dec(1, -1) ELSE Dec(5, -1)

\* ----------------------------------------------------- PET, fixed point
\* A fixed-point value is an integer v standing for v / 10^4, or FxNaN.
FX == Pow10(4)
FxNaN == [nan |-> TRUE, v |-> 0]
Fx(v) == [nan |-> FALSE, v |-> v]

ToFx(d) ==
    IF d.nan THEN FxNaN
    ELSE IF d.e + 4 >= 0 THEN Fx(d.m * Pow10(d.e + 4))
    ELSE Fx(d.m \div Pow10(0 - (d.e + 4)))

FromFx(f) == IF f.nan THEN NaN ELSE Dec(f.v, -4)

\* np.exp(x): Taylor series to ExpTerms terms (a bound of the model).
ExpTerms == 12

RECURSIVE ExpSum(_, _, _)
ExpSum(x, term, k) ==
    IF k > ExpTerms THEN 0
    ELSE term + ExpSum(x, (term * x) \div (FX * k), k + 1)

ExpFx(x) == ExpSum(x, FX, 1)

\* 4.87 / np.log(67.8 * 10 - 5.42) = 0.7479
U2Factor == 7479

\* lambda = 2.501 - 0.002361 * temp
Lambda(T) == 25010 - (2361 * T) \div 1000000

\* gamma = CP * pres / (0.622 * lambda), CP = 1.013e-3
Gamma(T, P) == (((1013 * (P \div 100)) \div FX) * FX) \div ((6220 * Lambda(T)) \div FX)

\* temp + 237.3, two decimals
T237(T) == (T + 2373000) \div 100

\* es = 0.6108 * np.exp(17.27 * temp / (temp + 237.3))
Es(T) == (6108 * ExpFx((1727 * T) \div T237(T))) \div FX

\* s = (4098 * es) / (temp + 237.3) ** 2
Slope(T) == (4098 * Es(T)) \div ((T237(T) * T237(T)) \div FX)

\* A division by zero gives a non-finite float; no modelled input reaches one.
Finite(T, P) ==
    /\ T237(T) # 0
    /\ (T237(T) * T237(T)) \div FX # 0
    /\ (6220 * Lambda(T)) \div FX # 0

\* makkink_pet = (0.65 * s * rs) / (lambda * (s + gamma)), one cell
MakkinkRaw(temp, rs, pres) ==
    LET T == ToFx(temp).v
        P == ToFx(pres).v
        den == (Lambda(T) * (Slope(T) + Gamma(T, P))) \div FX
    IN  IF temp.nan \/ rs.nan \/ pres.nan THEN FxNaN
        ELSE IF ~Finite(T, P) \/ den = 0 THEN FxNaN
        ELSE Fx(((((6500 * Slope(T)) \div FX) * ToFx(rs).v)) \div den)

\* pm_pet = (0.408 * s * (rn - G) + gamma * 37 / (temp + 273) * u2 * (es - ea))
\*          / (s + gamma * (1 + 0.34 * u2)), one cell
PenmanRaw(temp, rh, ws, rn, pres, g) ==
    LET T == ToFx(temp).v
        P == ToFx(pres).v
        u2 == (U2Factor * ToFx(ws).v) \div FX
        ea == ((ToFx(rh).v \div 100) * Es(T)) \div FX
        rad == (((4080 * Slope(T)) \div FX) * ToFx(DSub(rn, g)).v) \div FX
        t273 == (T + 2730000) \div 100
        aero == (((((Gamma(T, P) * 37 * 100) \div t273) * u2) \div FX) * (Es(T) - ea)) \div FX
        den == Slope(T) + (Gamma(T, P) * (FX + (3400 * u2) \div FX)) \div FX
    IN  IF temp.nan \/ rh.nan \/ ws.nan \/ rn.nan \/ pres.nan \/ g.nan THEN FxNaN
        ELSE IF ~Finite(T, P) \/ t273 = 0 \/ den = 0 THEN FxNaN
        ELSE Fx(((rad + aero) * FX) \div den)

\* The equation without the clip of line 481.
ClipPetMissing(f) == FromFx(f)
\* The value clipped at 0, as a float.
ClipPet(f) == ClipMin0(FromFx(f))

calculate_makkink(temp, rs, pres) ==
    [t \in DOMAIN temp |-> [j \in DOMAIN temp[t] |-> [k \in DOMAIN temp[t][j] |->
        ClipPet(MakkinkRaw(temp[t][j][k], rs[t][j][k], pres[t][j][k]))]]]

\* The Penman-Monteith equation and its clip, given G.
PenmanEquation(temp, rh, ws, rn, pres, g) ==
    [t \in DOMAIN temp |-> [j \in DOMAIN temp[t] |-> [k \in DOMAIN temp[t][j] |->
        ClipPet(PenmanRaw(temp[t][j][k], rh[t][j][k], ws[t][j][k], rn[t][j][k],
                          pres[t][j][k], g[t][j][k]))]]]

\* ------------------------------------------------------------ the run
\* The statements of the notebook, in cell order: the model run ID, then
\* (on the downloaded and reprojected dataset) the crop and what follows.
ProgramSwapped ==
    << "modelrun", "crop", "conv_pres", "conv_temp", "grad_mj", "deaccumulate", "rn_sum",
       "rn_mj", "makkink", "pm_copy", "get_daylight_factors", "gflux",
       "pm_equation", "exp_grad", "exp_rn", "exp_nswrf", "exp_nlwrf", "exp_precip",
       "geometry", "export" >>
Program ==
    << "modelrun", "crop", "conv_pres", "conv_temp", "deaccumulate", "rn_sum", "grad_mj",
       "rn_mj", "makkink", "pm_copy", "get_daylight_factors", "gflux",
       "pm_equation", "exp_grad", "exp_rn", "exp_nswrf", "exp_nlwrf", "exp_precip",
       "geometry", "export" >>

\* The statements ds[var] = ds[var] * c.
ScaleTableNetWrong ==
    [ conv_pres |-> [var |-> "pres", c |-> Dec(1, -3)],
      grad_mj   |-> [var |-> "grad", c |-> Dec(1, -6)],
      rn_mj     |-> [var |-> "rn", c |-> Dec(1, -6)],
      exp_grad  |-> [var |-> "grad", c |-> Dec(1, -3)],
      exp_rn    |-> [var |-> "rn", c |-> Dec(1, 3)],
      exp_nswrf |-> [var |-> "nswrf", c |-> Dec(1, -3)],
      exp_nlwrf |-> [var |-> "nlwrf", c |-> Dec(1, -3)] ]
ScaleTable ==
    [ conv_pres |-> [var |-> "pres", c |-> Dec(1, -3)],
      grad_mj   |-> [var |-> "grad", c |-> Dec(1, -6)],
      rn_mj     |-> [var |-> "rn", c |-> Dec(1, -6)],
      exp_grad  |-> [var |-> "grad", c |-> Dec(1, 3)],
      exp_rn    |-> [var |-> "rn", c |-> Dec(1, 3)],
      exp_nswrf |-> [var |-> "nswrf", c |-> Dec(1, -3)],
      exp_nlwrf |-> [var |-> "nlwrf", c |-> Dec(1, -3)] ]

VARIABLES
    pc,                \* index in Program of the next statement; 0: aborted
    err,               \* the uncaught exception, or "none"
    ds,                \* the dataset: variable name -> array (time, y, x)
    x, y,              \* ds.x, ds.y
    time,              \* ds.time
    calendar, sun,     \* the environment: DST calendar, almanac of the API
    now,               \* the environment: the clock when the run starts
    modelrun,          \* the model run ID
    provider,          \* the values the Deaccumulator is given (history)
    loopi,             \* index of the running for loop
    daylight_factors,  \* get_daylight_factors' list
    requests,          \* the dates of the requests sent to the API (history)
    G,                 \* calculate_penman_monteith's G
    geometry,          \* the Grid2D of the export
    exported,          \* the arrays written to dfs2, by variable
    log                \* the operations applied to ds so far (history)

vars == << pc, err, ds, x, y, time, calendar, sun, now, modelrun, provider, loopi,
           daylight_factors, requests, G, geometry, exported, log >>

At(label) == pc \in DOMAIN Program /\ Program[pc] = label
Done == pc = Len(Program) + 1
Aborted == pc = 0

\* f with key k set to v.
Ext(f, k, v) == [n \in DOMAIN f \cup {k} |-> IF n = k THEN v ELSE f[n]]

InitWith(cums, weathers, starts, calendars, suns, x0s, ytops, nows) ==
    \E cum \in cums, w \in weathers, start \in starts, c \in calendars,
       s \in suns, x0 \in x0s, ytop \in ytops, n \in nows :
        /\ pc = 1
        /\ err = "none"
        /\ ds = [var \in BaseVars |-> InputField(var, cum, w)]
        /\ x = GridX(x0)
        /\ y = GridY(ytop)
        /\ time = TimeAxis(start)
        /\ calendar = c
        /\ sun = s
        /\ now = n
        /\ modelrun = << >>
        /\ provider = << >>
        /\ loopi = 1
        /\ daylight_factors = << >>
        /\ requests = << >>
        /\ G = << >>
        /\ geometry = << >>
        /\ exported = << >>
        /\ log = << >>

\* Runs that vary the data: every choice of a series per cumulative
\* variable and every weather, from 03:00 and from 23:00 of day 0, the day
\* before the clocks change in spring.
Init ==
    InitWith([{"grad", "nswrf", "nlwrf", "precip"} -> CumSeriesIds], WeatherIds,
             {3 * 60, 23 * 60}, {"spring"}, {0}, {438000}, {6486000},
             {MinutesPerDay + 14 * 60 + 30})

\* Runs that vary the time axis: every start hour of day 0 and day 1, every
\* calendar, every almanac.
InitDaylight ==
    InitWith({[v \in {"grad", "nswrf", "nlwrf", "precip"} |-> 0]}, {0},
             {60 * h : h \in 0 .. 47}, Calendars, 0 .. 2, {438000}, {6486000},
             {MinutesPerDay + 14 * 60 + 30})

\* Runs that vary the position of the reprojected grid against the
\* bounding box: from wholly outside on either side, over one coordinate
\* on an edge of the box, to wholly inside.
InitGrid ==
    InitWith({[v \in {"grad", "nswrf", "nlwrf", "precip"} |-> 0]}, {0},
             {3 * 60, 23 * 60}, {"spring"}, {0},
             {XMin - 2 * Resolution, XMin - Resolution, XMin,
              XMax - Resolution, XMax, XMax + Resolution},
             {YMax + 3 * Resolution, YMax + Resolution, YMax,
              YMin + Resolution, YMin, YMin - Resolution},
             {MinutesPerDay + 14 * 60 + 30})

\* Runs that vary the clock: every minute of day 1 (day 0 is yesterday).
InitModelRun ==
    InitWith({[v \in {"grad", "nswrf", "nlwrf", "precip"} |-> 0]}, {0},
             {3 * 60, 23 * 60}, {"spring"}, {0}, {438000}, {6486000},
             MinutesPerDay .. 2 * MinutesPerDay - 1)

Step(entry) ==
    /\ pc' = pc + 1
    /\ loopi' = 1
    /\ log' = Append(log, entry)

\* forecast_hours, as hours of the day.
forecast_hours == << 0, 6, 12, 18 >>

date_today(clock) == Date(clock)
date_yesterday(clock) == date_today(clock) - 1

\* tback = datetime.now() - timedelta(hours=6)
tback(clock) == clock - 6 * 60

\* datetime.combine(date, time of hour) for yesterday and today.
forecast_datetimes(clock) ==
    { d * MinutesPerDay + forecast_hours[n] * 60 :
        d \in {date_yesterday(clock), date_today(clock)}, n \in DOMAIN forecast_hours }

filtered_forecasts(clock) == { h \in forecast_datetimes(clock) : h < tback(clock) }

\* max(filtered_forecasts, default=tback)
closest_forecast(clock) ==
    IF filtered_forecasts(clock) = {} THEN tback(clock)
    ELSE CHOOSE m \in filtered_forecasts(clock) : \A h \in filtered_forecasts(clock) : h <= m

\* f'{date_today}T{closest_forecast.strftime("%H")}0000Z': the date of
\* today, the hour of the closest forecast, minute and second 00.
ModelRunId(clock) ==
    [date |-> date_today(clock), hour |-> Hour(closest_forecast(clock)),
     minute |-> 0, second |-> 0]

\* The cell that creates the model run ID.
ModelRun ==
    /\ At("modelrun")
    /\ modelrun' = ModelRunId(now)
    /\ pc' = pc + 1
    /\ UNCHANGED << err, ds, x, y, time, calendar, sun, now, provider, loopi,
                    daylight_factors, requests, G, geometry, exported, log >>

\* mask_x, mask_y, mask; ds = ds.where(mask, drop=True)
Crop ==
    /\ At("crop")
    /\ ds' = [var \in DOMAIN ds |-> CropField(ds[var], x, y)]
    /\ x' = Pick(x, KeptCols(x, y))
    /\ y' = Pick(y, KeptRows(x, y))
    /\ provider' = ds'
    /\ Step([op |-> "crop", var |-> "*"])
    /\ UNCHANGED << err, time, calendar, sun, now, modelrun, daylight_factors,
                    requests, G,
                    geometry, exported >>

\* ds[var] = ds[var] * c
Scale ==
    /\ pc \in DOMAIN Program
    /\ Program[pc] \in DOMAIN ScaleTable
    /\ LET st == ScaleTable[Program[pc]] IN
        /\ ds' = [ds EXCEPT ![st.var] = ArrScale(@, st.c)]
        /\ Step([op |-> "scale", var |-> st.var, c |-> st.c])
    /\ UNCHANGED << err, x, y, time, calendar, sun, now, modelrun, provider, daylight_factors,
                    requests, G, geometry, exported >>

\* ds['temp'] = ds['temp'] - 273.15
ConvTemp ==
    /\ At("conv_temp")
    /\ ds' = [ds EXCEPT !["temp"] = ArrOffset(@, Dec(27315, -2))]
    /\ Step([op |-> "offset", var |-> "temp"])
    /\ UNCHANGED << err, x, y, time, calendar, sun, now, modelrun, provider, daylight_factors,
                    requests, G, geometry, exported >>

\* data[1:] - data[:-1], assigned to data[1:]: the right-hand side is
\* evaluated whole before the assignment.
RECURSIVE DeaccumulateInPlace(_)
DeaccumulateInPlace(data) ==
    IF Len(data) <= 1 THEN data
    ELSE LET head == DeaccumulateInPlace(SubSeq(data, 1, Len(data) - 1))
         IN  Append(head, SliceSub(data[Len(data)], head[Len(head)]))
\* A de-accumulation that takes zero as the value before the first step.
DeaccumulateFromZero(data) ==
    [t \in DOMAIN data |-> IF t = 1 THEN SliceSub(data[t], data[t]) ELSE SliceSub(data[t], data[t - 1])]
\* A de-accumulation that clips negative residuals at zero.
DeaccumulateClipped(data) ==
    [t \in DOMAIN data |->
        IF t = 1 THEN data[t]
        ELSE [j \in DOMAIN data[t] |-> [k \in DOMAIN data[t][j] |->
                ClipMin0(DSub(data[t][j][k], data[t - 1][j][k]))]]]
Deaccumulate(data) ==
    [t \in DOMAIN data |-> IF t = 1 THEN data[t] ELSE SliceSub(data[t], data[t - 1])]

\* for var in accumulated_vars: one iteration
DeaccumulateVar ==
    /\ At("deaccumulate")
    /\ LET var == accumulated_vars[loopi] IN
        /\ ds' = [ds EXCEPT ![var] = Deaccumulate(@)]
        /\ log' = Append(log, [op |-> "deaccumulate", var |-> var])
    /\ IF loopi = Len(accumulated_vars)
       THEN pc' = pc + 1 /\ loopi' = 1
       ELSE pc' = pc /\ loopi' = loopi + 1
    /\ UNCHANGED << err, x, y, time, calendar, sun, now, modelrun, provider, daylight_factors,
                    requests, G, geometry, exported >>

\* ds['rn'] = ds['nswrf'] + ds['nlwrf']
RnSum ==
    /\ At("rn_sum")
    /\ ds' = Ext(ds, "rn", ArrAdd(ds["nswrf"], ds["nlwrf"]))
    /\ Step([op |-> "sum", var |-> "rn"])
    /\ UNCHANGED << err, x, y, time, calendar, sun, now, modelrun, provider, daylight_factors,
                    requests, G, geometry, exported >>

\* ds['makkink'] = calculate_makkink(temp, rs = grad, pres)
Makkink ==
    /\ At("makkink")
    /\ ds' = Ext(ds, "makkink", calculate_makkink(ds["temp"], ds["grad"], ds["pres"]))
    /\ Step([op |-> "pet", var |-> "makkink"])
    /\ UNCHANGED << err, x, y, time, calendar, sun, now, modelrun, provider, daylight_factors,
                    requests, G, geometry, exported >>

\* G = copy.deepcopy(rn)
PmCopy ==
    /\ At("pm_copy")
    /\ G' = ds["rn"]
    /\ Step([op |-> "copy", var |-> "rn"])
    /\ UNCHANGED << err, ds, x, y, time, calendar, sun, now, modelrun, provider, daylight_factors,
                    requests, geometry, exported >>

\* requests.get(...) for the date of a timestep
IssueRequestCached(reqs, d) ==
    IF \E n \in DOMAIN reqs : reqs[n] = d THEN reqs ELSE Append(reqs, d)
IssueRequest(reqs, d) == Append(reqs, d)

TzRaises(ts) == TzDst(calendar, ts) \in {"NonExistentTimeError", "AmbiguousTimeError"}

\* The exception leaves get_daylight_factors, calculate_penman_monteith and
\* the cell: the run ends.
Raise(e) ==
    /\ pc' = 0
    /\ err' = e
    /\ UNCHANGED << ds, x, y, time, calendar, sun, now, modelrun, provider, loopi,
                    daylight_factors, G, geometry, exported, log >>

\* A lookup that catches the failure and uses a default pair.
LookupFailsDefault ==
    /\ At("get_daylight_factors")
    /\ ~TzRaises(time[loopi])
    /\ requests' = IssueRequest(requests, Date(time[loopi]))
    /\ daylight_factors' = Append(daylight_factors, << 0, 0 >>)
    /\ IF loopi = NT
       THEN pc' = pc + 1 /\ loopi' = 1
       ELSE pc' = pc /\ loopi' = loopi + 1
    /\ err' = "ConnectionError"
    /\ UNCHANGED << ds, x, y, time, calendar, sun, now, modelrun, provider, G, geometry,
                    exported, log >>

\* An iteration of get_daylight_factors whose request fails, whose response
\* is not the expected JSON, or whose time strings do not parse.
LookupFails ==
    /\ At("get_daylight_factors")
    /\ requests' = IssueRequest(requests, Date(time[loopi]))
    /\ \E e \in LookupFailures :
        /\ e = "ValueError" => ~TzRaises(time[loopi])
        /\ Raise(e)

\* An iteration of get_daylight_factors in which copenhagen_tz.dst raises.
LookupTzRaises ==
    /\ At("get_daylight_factors")
    /\ TzRaises(time[loopi])
    /\ requests' = IssueRequest(requests, Date(time[loopi]))
    /\ Raise(TzDst(calendar, time[loopi]))

\* An iteration of get_daylight_factors that appends a pair.
LookupOk ==
    /\ At("get_daylight_factors")
    /\ ~TzRaises(time[loopi])
    /\ requests' = IssueRequest(requests, Date(time[loopi]))
    /\ daylight_factors' =
          Append(daylight_factors,
                 DaylightPair(ApiResults(sun, Date(time[loopi])), TzDst(calendar, time[loopi])))
    /\ IF loopi = NT
       THEN pc' = pc + 1 /\ loopi' = 1
       ELSE pc' = pc /\ loopi' = loopi + 1
    /\ UNCHANGED << err, ds, x, y, time, calendar, sun, now, modelrun, provider, G, geometry,
                    exported, log >>

\* for i, (sunrise, sunset) in enumerate(daylight_factors): one iteration
GFluxStep ==
    /\ At("gflux")
    /\ G' = [G EXCEPT ![loopi] =
                SliceScale(ds["rn"][loopi], GFactor(daylight_factors[loopi], time[loopi]))]
    /\ IF loopi = Len(daylight_factors)
       THEN pc' = pc + 1 /\ loopi' = 1
       ELSE pc' = pc /\ loopi' = loopi + 1
    /\ UNCHANGED << err, ds, x, y, time, calendar, sun, now, modelrun, provider, daylight_factors,
                    requests, geometry, exported, log >>

\* The equation, the clip, and ds['penman_monteith'] = the result.
PmEquation ==
    /\ At("pm_equation")
    /\ ds' = Ext(ds, "penman_monteith",
                 PenmanEquation(ds["temp"], ds["rh"], ds["ws"], ds["rn"], ds["pres"], G))
    /\ Step([op |-> "pet", var |-> "penman_monteith"])
    /\ UNCHANGED << err, x, y, time, calendar, sun, now, modelrun, provider, daylight_factors,
                    requests, G, geometry, exported >>

\* ds['precip'] = ds['precip'].clip(min = 0)
ClipPrecip ==
    /\ At("exp_precip")
    /\ ds' = [ds EXCEPT !["precip"] = ArrClip(@)]
    /\ Step([op |-> "clip", var |-> "precip"])
    /\ UNCHANGED << err, x, y, time, calendar, sun, now, modelrun, provider, daylight_factors,
                    requests, G, geometry, exported >>

Reverse(seq) == [i \in 1 .. Len(seq) |-> seq[Len(seq) + 1 - i]]

\* What mikeio.Grid2D may do with the axes it is given: it builds the
\* grid; of axes without a coordinate the library's source is not part of
\* the notebook, and it either builds an empty grid or raises.
Grid2DOutcomes(gx, gy) ==
    IF gx = << >> \/ gy = << >> THEN {"grid", "raise"} ELSE {"grid"}

\* geometry = mikeio.Grid2D(x=ds.x.data, y=ds.y.data[::-1])
Geometry ==
    /\ At("geometry")
    /\ \E outcome \in Grid2DOutcomes(x, Reverse(y)) :
        IF outcome = "grid"
        THEN /\ geometry' = [x |-> x, y |-> Reverse(y)]
             /\ Step([op |-> "geometry", var |-> "*"])
             /\ UNCHANGED << err, ds, x, y, time, calendar, sun, now, modelrun, provider,
                             daylight_factors, requests, G, exported >>
        ELSE Raise("Grid2DError") /\ UNCHANGED requests

\* An export that leaves the rows as they are.
FlipYMissing(A) == A
\* np.flipud of every timestep of an array
FlipY(A) == [t \in DOMAIN A |-> Reverse(A[t])]

\* for par in param: one iteration (flip in place, write the dfs2 file)
ExportVar ==
    /\ At("export")
    /\ LET par == param[loopi] IN
        /\ ds' = [ds EXCEPT ![par] = FlipY(@)]
        /\ exported' = Ext(exported, par, FlipY(ds[par]))
        /\ log' = Append(log, [op |-> "export", var |-> par])
    /\ IF loopi = Len(param)
       THEN pc' = pc + 1 /\ loopi' = 1
       ELSE pc' = pc /\ loopi' = loopi + 1
    /\ UNCHANGED << err, x, y, time, calendar, sun, now, modelrun, provider, daylight_factors,
                    requests, G, geometry >>

Next ==
    \/ ModelRun
    \/ Crop
    \/ Scale
    \/ ConvTemp
    \/ DeaccumulateVar
    \/ RnSum
    \/ Makkink
    \/ PmCopy
    \/ LookupFails
    \/ LookupTzRaises
    \/ LookupOk
    \/ GFluxStep
    \/ PmEquation
    \/ ClipPrecip
    \/ Geometry
    \/ ExportVar

Spec == Init /\ [][Next]_vars

SpecDaylight == InitDaylight /\ [][Next]_vars

SpecGrid == InitGrid /\ [][Next]_vars

SpecModelRun == InitModelRun /\ [][Next]_vars

\* ------------------------------------------------------------- claims
Idx(label) == CHOOSE n \in DOMAIN Program : Program[n] = label
InLog(e) == \E n \in DOMAIN log : log[n] = e
Deaccumulated(var) == InLog([op |-> "deaccumulate", var |-> var])

\* No statement after the de-accumulation has touched var yet.
Untouched(var) == ~\E n \in DOMAIN log : log[n].var = var /\ log[n].op # "deaccumulate"

\* The provider's increment of var at (t, j, k): the first value, then the
\* forward difference of the provider's values.
Increment(var, t, j, k) ==
    IF t = 1 THEN provider[var][1][j][k]
    ELSE DSub(provider[var][t][j][k], provider[var][t - 1][j][k])

\* == of two floats: false if one is NaN.
DEq(a, b) == ~a.nan /\ ~b.nan /\ a = b

\* The cumulative sum from timestep 1 to t of series A at cell (j, k).
RECURSIVE CumSum(_, _, _, _)
CumSum(A, t, j, k) == IF t = 1 THEN A[1][j][k] ELSE DAdd(CumSum(A, t - 1, j, k), A[t][j][k])

AccVars == { accumulated_vars[n] : n \in DOMAIN accumulated_vars }

\* C1: once a cumulative variable is de-accumulated, its timestep 0 holds
\* the provider's value and every later timestep i holds
\* provider[i] - provider[i-1], at every cell.
C1_ForwardDifference ==
    \A var \in AccVars : (Deaccumulated(var) /\ Untouched(var)) =>
        \A t \in DOMAIN ds[var] : \A j \in DOMAIN ds[var][t] : \A k \in DOMAIN ds[var][t][j] :
            ds[var][t][j][k] = Increment(var, t, j, k)

\* C1 witness: grad is de-accumulated and a cell whose provider series starts
\* 0, 5, 5, 12 (x 10^5) now holds 0, 5, 0, 7.
C1_Witness ==
    /\ Deaccumulated("grad") /\ Untouched("grad")
    /\ \E j \in DOMAIN ds["grad"][1] : \E k \in DOMAIN ds["grad"][1][j] :
        /\ << provider["grad"][1][j][k], provider["grad"][2][j][k],
              provider["grad"][3][j][k], provider["grad"][4][j][k] >>
           = << Dec(0, 0), Dec(5, 5), Dec(5, 5), Dec(12, 5) >>
        /\ << ds["grad"][1][j][k], ds["grad"][2][j][k], ds["grad"][3][j][k], ds["grad"][4][j][k] >>
           = << Dec(0, 0), Dec(5, 5), Dec(0, 0), Dec(7, 5) >>

\* C2 as claimed: after the de-accumulation the cumulative sum of the
\* series equals the provider's series at every cell and timestep.
C2_RoundTripEverywhere ==
    \A var \in AccVars : (Deaccumulated(var) /\ Untouched(var)) =>
        \A t \in DOMAIN ds[var] : \A j \in DOMAIN ds[var][t] : \A k \in DOMAIN ds[var][t][j] :
            DEq(CumSum(ds[var], t, j, k), provider[var][t][j][k])

NoGapUpTo(var, t, j, k) == \A u \in 1 .. t : ~provider[var][u][j][k].nan

\* C2 amended: the cumulative sum equals the provider's series at every
\* cell and timestep up to which the provider's series holds no
\* not-a-number value; from the first not-a-number value on it is
\* not-a-number.
C2_RoundTrip ==
    \A var \in AccVars : (Deaccumulated(var) /\ Untouched(var)) =>
        \A t \in DOMAIN ds[var] : \A j \in DOMAIN ds[var][t] : \A k \in DOMAIN ds[var][t][j] :
            IF NoGapUpTo(var, t, j, k)
            THEN DEq(CumSum(ds[var], t, j, k), provider[var][t][j][k])
            ELSE CumSum(ds[var], t, j, k).nan

\* C2 witness: nswrf is de-accumulated, one cell has a gapless series with a
\* non-zero first value and a negative increment, another cell has a gap.
C2_Witness ==
    /\ Deaccumulated("nswrf") /\ Untouched("nswrf")
    /\ \E j \in DOMAIN ds["nswrf"][1] : \E k \in DOMAIN ds["nswrf"][1][j] :
        /\ NoGapUpTo("nswrf", NT, j, k)
        /\ provider["nswrf"][1][j][k].m # 0
        /\ \E t \in 2 .. NT : ds["nswrf"][t][j][k].m < 0
    /\ \E j \in DOMAIN ds["nswrf"][1] : \E k \in DOMAIN ds["nswrf"][1][j] :
        ~NoGapUpTo("nswrf", NT, j, k)

HasVar(var) == var \in DOMAIN ds

\* The PET fields are in ds and no array has been flipped for the export.
PetComputed == HasVar("makkink") /\ HasVar("penman_monteith")
BeforeExport == exported = << >>

\* C3 as claimed: the Makkink and Penman-Monteith values are >= 0 at every
\* cell and timestep.
C3_PetNonNegativeEverywhere ==
    \A var \in {"makkink", "penman_monteith"} : HasVar(var) =>
        \A t \in DOMAIN ds[var] : \A j \in DOMAIN ds[var][t] : \A k \in DOMAIN ds[var][t][j] :
            DGe0(ds[var][t][j][k])

MakkinkInputNaN(t, j, k) ==
    ds["temp"][t][j][k].nan \/ ds["grad"][t][j][k].nan \/ ds["pres"][t][j][k].nan

PenmanInputNaN(t, j, k) ==
    \/ ds["temp"][t][j][k].nan \/ ds["rh"][t][j][k].nan \/ ds["ws"][t][j][k].nan
    \/ ds["rn"][t][j][k].nan \/ ds["pres"][t][j][k].nan

\* C3 amended: no Makkink or Penman-Monteith value is negative: each is
\* >= 0 or not-a-number, and it is not-a-number wherever one of its inputs
\* is not-a-number at that cell and timestep.
C3_PetNeverNegative ==
    /\ \A var \in {"makkink", "penman_monteith"} : HasVar(var) =>
        \A t \in DOMAIN ds[var] : \A j \in DOMAIN ds[var][t] : \A k \in DOMAIN ds[var][t][j] :
            ds[var][t][j][k].nan \/ ds[var][t][j][k].m >= 0
    /\ (HasVar("makkink") /\ BeforeExport) =>
        \A t \in DOMAIN ds["makkink"] : \A j \in DOMAIN ds["makkink"][t] :
            \A k \in DOMAIN ds["makkink"][t][j] :
                MakkinkInputNaN(t, j, k) => ds["makkink"][t][j][k].nan
    /\ (HasVar("penman_monteith") /\ BeforeExport) =>
        \A t \in DOMAIN ds["penman_monteith"] : \A j \in DOMAIN ds["penman_monteith"][t] :
            \A k \in DOMAIN ds["penman_monteith"][t][j] :
                PenmanInputNaN(t, j, k) => ds["penman_monteith"][t][j][k].nan

\* C3 witness: both fields are computed; the Makkink equation gave a
\* negative value at one cell (negative radiation), the Penman-Monteith
\* equation gave a negative value at a cell with a temperature below zero,
\* both were clamped to 0, and both fields hold a positive value too.
C3_Witness ==
    /\ PetComputed /\ BeforeExport /\ At("exp_grad")
    /\ \E t \in 1 .. NT : \E j \in DOMAIN ds["makkink"][t] : \E k \in DOMAIN ds["makkink"][t][j] :
        /\ ~MakkinkInputNaN(t, j, k)
        /\ MakkinkRaw(ds["temp"][t][j][k], ds["grad"][t][j][k], ds["pres"][t][j][k]).v < 0
        /\ ds["grad"][t][j][k].m < 0
        /\ ds["makkink"][t][j][k] = Dec(0, 0)
    /\ \E t \in 1 .. NT : \E j \in DOMAIN ds["makkink"][t] : \E k \in DOMAIN ds["makkink"][t][j] :
        /\ ~PenmanInputNaN(t, j, k)
        /\ PenmanRaw(ds["temp"][t][j][k], ds["rh"][t][j][k], ds["ws"][t][j][k],
                     ds["rn"][t][j][k], ds["pres"][t][j][k], G[t][j][k]).v < 0
        /\ ds["temp"][t][j][k].m < 0
        /\ ds["penman_monteith"][t][j][k] = Dec(0, 0)
    /\ \E t \in 1 .. NT : \E j \in DOMAIN ds["makkink"][t] : \E k \in DOMAIN ds["makkink"][t][j] :
        ds["makkink"][t][j][k].m > 0
    /\ \E t \in 1 .. NT : \E j \in DOMAIN ds["makkink"][t] : \E k \in DOMAIN ds["makkink"][t][j] :
        ds["penman_monteith"][t][j][k].m > 0

\* rn as calculate_penman_monteith is given it: the provider's increments
\* of nswrf and nlwrf, added, in megajoule.
RnAtCall(t, j, k) ==
    DMul(DAdd(Increment("nswrf", t, j, k), Increment("nlwrf", t, j, k)), Dec(1, -6))

\* The G-flux loop has assigned timestep i.
GAssigned(i) == (At("gflux") /\ i < loopi) \/ pc > Idx("gflux")

\* C4: G[i] is 0.1 * rn[i] at every cell when sunrise <= hour(i) < sunset
\* for the pair of timestep i, and 0.5 * rn[i] otherwise; a timestep the loop
\* has not reached holds the copy of rn; rn is not modified.
C4_GFluxSplit ==
    /\ \A i \in DOMAIN G : \A j \in DOMAIN G[i] : \A k \in DOMAIN G[i][j] :
        IF GAssigned(i)
        THEN LET sunrise == daylight_factors[i][1]
                 sunset == daylight_factors[i][2]
                 hour == 60 * Hour(time[i]) + Minute(time[i])
             IN  /\ (sunrise <= hour /\ hour < sunset) =>
                        G[i][j][k] = DMul(Dec(1, -1), RnAtCall(i, j, k))
                 /\ (hour < sunrise \/ sunset <= hour) =>
                        G[i][j][k] = DMul(Dec(5, -1), RnAtCall(i, j, k))
        ELSE G[i][j][k] = RnAtCall(i, j, k)
    /\ (G # << >> /\ pc <= Idx("exp_rn")) =>
        \A i \in DOMAIN G : \A j \in DOMAIN G[i] : \A k \in DOMAIN G[i][j] :
            ds["rn"][i][j][k] = RnAtCall(i, j, k)

\* C4 witness: the loop is over; one timestep's hour equals its sunrise
\* (day: 0.1 * rn, rn not zero), another timestep is a night timestep.
C4_Witness ==
    /\ pc > Idx("gflux")
    /\ \E i \in DOMAIN G :
        /\ 60 * Hour(time[i]) = daylight_factors[i][1]
        /\ \E j \in DOMAIN G[i] : \E k \in DOMAIN G[i][j] :
            /\ RnAtCall(i, j, k).m # 0
            /\ G[i][j][k] = DMul(Dec(1, -1), ds["rn"][i][j][k])
    /\ \E i \in DOMAIN G :
        /\ 60 * Hour(time[i]) < daylight_factors[i][1]
        /\ \E j \in DOMAIN G[i] : \E k \in DOMAIN G[i][j] :
            /\ RnAtCall(i, j, k).m # 0
            /\ G[i][j][k] = DMul(Dec(5, -1), ds["rn"][i][j][k])

\* The local civil time of day of timestep i in Europe/Copenhagen, in
\* minutes: UTC + 1 h in standard time, UTC + 2 h in daylight-saving time.
LocalHourOf(i) ==
    (HourOf(time[i]) + 60 * (IF DstInEffect(calendar, time[i]) THEN 2 ELSE 1)) % MinutesPerDay

\* C5 as claimed: the hour compared with (sunrise, sunset) is the local
\* civil hour of the timestep: G[i] is 0.1 * rn[i] when the local time of
\* timestep i lies in [sunrise, sunset) and 0.5 * rn[i] otherwise.
C5_LocalHourCompared ==
    \A i \in DOMAIN G : GAssigned(i) =>
        \A j \in DOMAIN G[i] : \A k \in DOMAIN G[i][j] :
            G[i][j][k] =
                DMul(IF daylight_factors[i][1] <= LocalHourOf(i)
                        /\ LocalHourOf(i) < daylight_factors[i][2]
                     THEN Dec(1, -1) ELSE Dec(5, -1),
                     RnAtCall(i, j, k))

TzErrors == { "NonExistentTimeError", "AmbiguousTimeError" }

\* C6 as claimed: get_daylight_factors returns for every time axis (no
\* timestamp makes it raise), with one pair per timestep in time-axis
\* order, each the response's sunrise and sunset plus the same offset:
\* 2 h where daylight-saving time is in effect at the timestep, else 1 h.
C6_OnePairPerTimestep ==
    /\ err \notin TzErrors
    /\ pc > Idx("get_daylight_factors") =>
        /\ Len(daylight_factors) = NT
        /\ \A i \in DOMAIN daylight_factors :
            LET r == ApiResults(sun, Date(time[i]))
                off == IF DstInEffect(calendar, time[i]) THEN 2 ELSE 1
            IN  daylight_factors[i] =
                    << 60 * Strptime(r.sunrise).hour + Strptime(r.sunrise).minute + 60 * off,
                       60 * Strptime(r.sunset).hour + Strptime(r.sunset).minute + 60 * off >>

DatesOfAxis == { Date(time[i]) : i \in DOMAIN time }

\* C7 as claimed: a completed lookup has sent one request per distinct
\* date of the time axis.
C7_OneRequestPerDate ==
    pc > Idx("get_daylight_factors") => Len(requests) = Cardinality(DatesOfAxis)

\* C7 amended: the lookup sends one request per timestep, in time-axis
\* order, each for the date of its timestep, also when that date was asked
\* for before; a completed lookup has sent as many requests as there are
\* timesteps.
C7_OneRequestPerTimestep ==
    /\ \A n \in DOMAIN requests : n \in DOMAIN time /\ requests[n] = Date(time[n])
    /\ Len(daylight_factors) <= Len(requests)
    /\ Len(requests) <= Len(daylight_factors) + 1
    /\ At("get_daylight_factors") => Len(requests) = loopi - 1
    /\ pc > Idx("get_daylight_factors") => Len(requests) = NT

\* C7 witness: the lookup is complete for a time axis that spans two dates,
\* and for one that lies within one date the same holds (NT requests).
C7_Witness ==
    /\ pc > Idx("get_daylight_factors")
    /\ Cardinality(DatesOfAxis) = 2
    /\ Len(requests) = NT
    /\ \E m, n \in DOMAIN requests : m # n /\ requests[m] = requests[n]

\* C8: the G-flux loop assigns a timestep only after the lookup has
\* returned a pair for every timestep; when an iteration of the lookup
\* raises, the run is over: no pair is made up (every pair comes from the
\* response for its timestep), G holds no G-flux value, ds has no
\* penman_monteith and nothing is exported.
C8_LookupFailureAborts ==
    /\ (\E i \in 1 .. NT : GAssigned(i)) => (Len(daylight_factors) = NT /\ err = "none")
    /\ \A i \in DOMAIN daylight_factors :
        \E off \in {1, 2} :
            LET r == ApiResults(sun, Date(time[i]))
            IN  daylight_factors[i] =
                    << 60 * Strptime(r.sunrise).hour + Strptime(r.sunrise).minute + 60 * off,
                       60 * Strptime(r.sunset).hour + Strptime(r.sunset).minute + 60 * off >>
    /\ err # "none" =>
        /\ Aborted
        /\ Len(daylight_factors) < NT
        /\ ~HasVar("penman_monteith")
        /\ exported = << >>
        /\ ~\E n \in DOMAIN log : log[n].op \in {"export", "clip", "geometry"}
        /\ G = ds["rn"]

\* C8 witness: the third request failed after two pairs were appended: the
\* run is aborted with makkink computed and penman_monteith missing.
C8_Witness ==
    /\ Aborted
    /\ err \in LookupFailures
    /\ Len(daylight_factors) = 2
    /\ Len(requests) = 3
    /\ HasVar("makkink")
    /\ ~HasVar("penman_monteith")

\* The operations of the run, by stage.
OpsCrop == { [op |-> "crop", var |-> "*"] }
OpsInstant == { [op |-> "offset", var |-> "temp"],
                [op |-> "scale", var |-> "pres", c |-> Dec(1, -3)] }
OpsDeacc == { [op |-> "deaccumulate", var |-> v] : v \in AccVars }
OpsMegajoule == { [op |-> "sum", var |-> "rn"],
                  [op |-> "scale", var |-> "grad", c |-> Dec(1, -6)],
                  [op |-> "scale", var |-> "rn", c |-> Dec(1, -6)] }
OpsPet == { [op |-> "pet", var |-> "makkink"], [op |-> "copy", var |-> "rn"],
            [op |-> "pet", var |-> "penman_monteith"] }
OpsKilojoule == { [op |-> "scale", var |-> "grad", c |-> Dec(1, 3)],
                  [op |-> "scale", var |-> "rn", c |-> Dec(1, 3)],
                  [op |-> "scale", var |-> "nswrf", c |-> Dec(1, -3)],
                  [op |-> "scale", var |-> "nlwrf", c |-> Dec(1, -3)],
                  [op |-> "clip", var |-> "precip"] }
OpsExport == { [op |-> "geometry", var |-> "*"] }
                 \cup { [op |-> "export", var |-> param[n]] : n \in DOMAIN param }

\* Every operation of A in the log precedes every operation of B in the
\* log, and B starts only when all of A is in the log.
StageBefore(A, B) ==
    /\ \A m, n \in DOMAIN log : (log[m] \in A /\ log[n] \in B) => m < n
    /\ (\E n \in DOMAIN log : log[n] \in B) => \A a \in A : InLog(a)

IsUnitConversion(e) == e.op \in {"scale", "offset"}

\* C9 as claimed: no unit conversion is applied before the de-accumulation
\* has completed, and every unit conversion has completed before the PET
\* Engine starts.
C9_StrictStageOrder ==
    /\ \A n \in DOMAIN log : IsUnitConversion(log[n]) =>
        \A a \in OpsDeacc : \E m \in 1 .. n - 1 : log[m] = a
    /\ \A m, n \in DOMAIN log : (log[m] \in OpsPet /\ IsUnitConversion(log[n])) => n < m

\* C9 amended: the operations run in the order crop, conversion of pres
\* and temp, de-accumulation, net radiation and megajoule conversion, PET,
\* kilojoule conversion and precip clip, export, each group complete before
\* the next starts and each operation at most once; so no conversion of a
\* cumulative field or of rn precedes the de-accumulation, and the PET
\* Engine starts after the conversions to its units.
C9_StageOrder ==
    /\ StageBefore(OpsCrop, OpsInstant)
    /\ StageBefore(OpsInstant, OpsDeacc)
    /\ StageBefore(OpsDeacc, OpsMegajoule)
    /\ StageBefore(OpsMegajoule, OpsPet)
    /\ StageBefore(OpsPet, OpsKilojoule)
    /\ StageBefore(OpsKilojoule, OpsExport)
    /\ \A n \in DOMAIN log :
        log[n] \in OpsCrop \cup OpsInstant \cup OpsDeacc \cup OpsMegajoule
                     \cup OpsPet \cup OpsKilojoule \cup OpsExport
    /\ \A m, n \in DOMAIN log : log[m] = log[n] => m = n
    /\ Done => Len(log) = Cardinality(OpsCrop \cup OpsInstant \cup OpsDeacc \cup OpsMegajoule
                                        \cup OpsPet \cup OpsKilojoule \cup OpsExport)

\* C9 witness: a complete run, in which pres was converted before the
\* de-accumulation and grad was converted to kilojoule after the PET Engine.
C9_Witness ==
    /\ Done
    /\ \E m, n \in DOMAIN log :
        /\ m < n
        /\ log[m] = [op |-> "scale", var |-> "pres", c |-> Dec(1, -3)]
        /\ log[n] = [op |-> "deaccumulate", var |-> "grad"]
    /\ \E m, n \in DOMAIN log :
        /\ m < n
        /\ log[m] = [op |-> "pet", var |-> "penman_monteith"]
        /\ log[n] = [op |-> "scale", var |-> "grad", c |-> Dec(1, 3)]

\* The provider's increments of var times 10^e, as an array.
ScaledIncrements(var, e) ==
    [t \in DOMAIN provider[var] |-> [j \in DOMAIN provider[var][t] |->
        [k \in DOMAIN provider[var][t][j] |-> DMul(Increment(var, t, j, k), Dec(1, e))]]]

TimesApplied(e) == Cardinality({ n \in DOMAIN log : log[n] = e })

\* C10: from the call of calculate_makkink to the end of
\* calculate_penman_monteith grad is the provider's increment times 1e-6
\* and rn is the sum of the increments of nswrf and nlwrf times 1e-6; from
\* the end of the export conversions on, grad, nswrf and nlwrf are the
\* provider's increments times 1e-3 (rows reversed once exported), and what
\* is exported is that; each factor is applied at most once, and once in a
\* complete run.
C10_StagedScaling ==
    /\ (pc >= Idx("makkink") /\ pc <= Idx("pm_equation")) =>
        /\ ds["grad"] = ScaledIncrements("grad", -6)
        /\ \A t \in DOMAIN ds["rn"] : \A j \in DOMAIN ds["rn"][t] : \A k \in DOMAIN ds["rn"][t][j] :
            ds["rn"][t][j][k] = RnAtCall(t, j, k)
    /\ pc >= Idx("geometry") =>
        \A var \in {"grad", "nswrf", "nlwrf"} :
            IF var \in DOMAIN exported
            THEN /\ exported[var] = FlipY(ScaledIncrements(var, -3))
                 /\ ds[var] = FlipY(ScaledIncrements(var, -3))
            ELSE ds[var] = ScaledIncrements(var, -3)
    /\ \A e \in OpsMegajoule \cup OpsKilojoule : TimesApplied(e) <= 1
    /\ Done =>
        /\ \A e \in OpsMegajoule \cup OpsKilojoule : TimesApplied(e) = 1
        /\ {"grad", "nswrf", "nlwrf"} \subseteq DOMAIN exported

\* C10 witness: a complete run in which a cell of grad held 0.5 MJ (5 x 10^5
\* J) when the PET Engine read it and is exported as 500 kJ.
C10_Witness ==
    /\ Done
    /\ \E t \in 1 .. NT : \E j \in DOMAIN exported["grad"][t] :
        \E k \in DOMAIN exported["grad"][t][j] :
            /\ exported["grad"][t][j][k] = Dec(5, 2)
            /\ Increment("grad", t, Len(exported["grad"][t]) + 1 - j, k) = Dec(5, 5)

\* ---- C11
\* The provider's increment of var at (t, j, k) is a negative number.
NegativeResidual(var, t, j, k) ==
    ~Increment(var, t, j, k).nan /\ Increment(var, t, j, k).m < 0

Cells(A) == { << t, j, k >> : t \in DOMAIN A, j \in 1 .. Len(A[1]), k \in 1 .. Len(A[1][1]) }

\* Row j of an exported array is row RowOf(A, j) of the array before the flip.
RowOf(A, j) == Len(A[1]) + 1 - j

\* Negative residuals pass the Deaccumulator, reach the PET Engine and the
\* export scaled only; the one clip of the run is of precip, after the PET
\* Engine; until then precip holds the provider's increments, clipped or not.
NegativeResidualsKept ==
    /\ \A n \in DOMAIN log : log[n].op = "clip" =>
          (log[n].var = "precip" /\ pc > Idx("pm_equation"))
    /\ TimesApplied([op |-> "clip", var |-> "precip"]) <= 1
    /\ (Deaccumulated("precip") /\ Untouched("precip")) =>
          \A c \in Cells(ds["precip"]) :
              ds["precip"][c[1]][c[2]][c[3]] = Increment("precip", c[1], c[2], c[3])
    /\ \A var \in {"grad", "nswrf", "nlwrf"} \cap DOMAIN provider :
       \A c \in Cells(provider[var]) :
          NegativeResidual(var, c[1], c[2], c[3]) =>
              /\ (Deaccumulated(var) /\ Untouched(var)) =>
                    ds[var][c[1]][c[2]][c[3]] = Increment(var, c[1], c[2], c[3])
              /\ (var = "grad" /\ pc >= Idx("makkink") /\ pc <= Idx("pm_equation")) =>
                    /\ ds["grad"][c[1]][c[2]][c[3]]
                         = DMul(Increment("grad", c[1], c[2], c[3]), Dec(1, -6))
                    /\ ds["grad"][c[1]][c[2]][c[3]].m < 0
              /\ (var # "grad" /\ pc >= Idx("pm_copy") /\ pc <= Idx("pm_equation")) =>
                    ds["rn"][c[1]][c[2]][c[3]] = RnAtCall(c[1], c[2], c[3])
              /\ var \in DOMAIN exported =>
                    /\ exported[var][c[1]][RowOf(exported[var], c[2])][c[3]]
                         = DMul(Increment(var, c[1], c[2], c[3]), Dec(1, -3))
                    /\ exported[var][c[1]][RowOf(exported[var], c[2])][c[3]].m < 0

\* C11 as claimed: negative residuals of grad, nswrf and nlwrf are never
\* clipped and reach the PET Engine and the export scaled only, and the
\* exported precip is >= 0 at every cell and timestep.
C11_ExportedPrecipNonNegative ==
    /\ NegativeResidualsKept
    /\ "precip" \in DOMAIN exported =>
          \A c \in Cells(exported["precip"]) : DGe0(exported["precip"][c[1]][c[2]][c[3]])

\* C11 amended: negative residuals of grad, nswrf and nlwrf are never
\* clipped and reach the PET Engine and the export scaled only; the exported
\* precip is the provider's increment clipped at zero: >= 0, or not-a-number
\* where the increment is not-a-number, never negative.
C11_OnlyPrecipClipped ==
    /\ NegativeResidualsKept
    /\ "precip" \in DOMAIN exported =>
          \A c \in Cells(exported["precip"]) :
              LET v == exported["precip"][c[1]][c[2]][c[3]]
                  inc == Increment("precip", c[1], RowOf(exported["precip"], c[2]), c[3])
              IN  /\ v = ClipMin0(inc)
                  /\ v.nan \/ v.m >= 0
                  /\ v.nan <=> inc.nan

\* C11 witness: a complete run in which a negative residual of precip is
\* exported as 0, another cell of precip is exported as not-a-number, and a
\* negative residual of grad was read by calculate_makkink and is exported
\* negative.
C11_Witness ==
    /\ Done
    /\ \E c \in Cells(exported["precip"]) :
          /\ NegativeResidual("precip", c[1], RowOf(exported["precip"], c[2]), c[3])
          /\ exported["precip"][c[1]][c[2]][c[3]] = Dec(0, 0)
    /\ \E c \in Cells(exported["precip"]) : exported["precip"][c[1]][c[2]][c[3]].nan
    /\ \E c \in Cells(provider["grad"]) :
          /\ NegativeResidual("grad", c[1], c[2], c[3])
          /\ exported["grad"][c[1]][RowOf(exported["grad"], c[2])][c[3]].m < 0

\* ---- C12, C13
InBoxX(c) == c >= XMin /\ c <= XMax
InBoxY(c) == c >= YMin /\ c <= YMax
Coords(seq) == { seq[n] : n \in DOMAIN seq }

\* C12: the crop leaves only x coordinates within [x-min, x-max] and y
\* coordinates within [y-min, y-max], and keeps every column and every row
\* of the reprojected grid whose coordinate lies within the box, with its
\* data.
C12_CropKeepsBox ==
    [][At("crop") =>
        /\ \A c \in Coords(x') : InBoxX(c)
        /\ \A c \in Coords(y') : InBoxY(c)
        /\ \A c \in Coords(x) : InBoxX(c) => c \in Coords(x')
        /\ \A c \in Coords(y) : InBoxY(c) => c \in Coords(y')
        /\ \A var \in DOMAIN ds : \A t \in DOMAIN ds[var] :
            /\ Len(ds'[var][t]) = Len(y')
            /\ \A j \in DOMAIN y, k \in DOMAIN x : (InBoxY(y[j]) /\ InBoxX(x[k])) =>
                \E jj \in DOMAIN y', kk \in DOMAIN x' :
                    /\ y'[jj] = y[j] /\ x'[kk] = x[k]
                    /\ ds'[var][t][jj][kk] = ds[var][t][j][k]]_vars

\* The bounding box and the grid have a cell in common.
Intersects(gx, gy) ==
    (\E c \in Coords(gx) : InBoxX(c)) /\ (\E c \in Coords(gy) : InBoxY(c))

\* C13: a crop whose bounding box holds no cell of the reprojected grid
\* ends the run with EmptyRegionError, and no statement runs on a dataset
\* without cells.
C13_EmptyRegionAborts ==
    [][(At("crop") /\ ~Intersects(x, y)) => (pc' = 0 /\ err' = "EmptyRegionError")]_vars

\* ---- C14
\* The forecast cycles of yesterday and today, as times.
Cycles(clock) ==
    { d * MinutesPerDay + h * 60 : d \in {Date(clock) - 1, Date(clock)}, h \in {0, 6, 12, 18} }

\* The time a model run ID denotes.
Denoted(id) == id.date * MinutesPerDay + id.hour * 60 + id.minute

\* C14: the model run ID denotes the latest of the cycles 00, 06, 12 and 18
\* h of yesterday and today that lies more than six hours before now; it
\* never denotes a time later than now minus six hours.
C14_LatestAvailableCycle ==
    ~At("modelrun") =>
        /\ Denoted(modelrun) \in Cycles(now)
        /\ Denoted(modelrun) < now - 6 * 60
        /\ \A c \in Cycles(now) : c < now - 6 * 60 => c <= Denoted(modelrun)

\* ---- C15
\* The provider's field of var as an array of increments (de-accumulated).
Increments(var) == ScaledIncrements(var, 0)

RnAtCallArray ==
    [t \in DOMAIN provider["nswrf"] |-> [j \in DOMAIN provider["nswrf"][t] |->
        [k \in DOMAIN provider["nswrf"][t][j] |-> RnAtCall(t, j, k)]]]

\* The values of the exported variable par by timestep, row and column of
\* the dataset, row j belonging to the coordinate y[j]: the cropped input
\* converted to the export unit, and the PET of the converted input.
ValuesOf(par) ==
    CASE par = "temp" -> ArrOffset(provider["temp"], Dec(27315, -2))
      [] par = "pres" -> ArrScale(provider["pres"], Dec(1, -3))
      [] par \in {"rh", "ws"} -> provider[par]
      [] par \in {"grad", "nswrf", "nlwrf"} -> ScaledIncrements(par, -3)
      [] par = "precip" -> ArrClip(Increments("precip"))
      [] par = "makkink" ->
            calculate_makkink(ArrOffset(provider["temp"], Dec(27315, -2)),
                              ScaledIncrements("grad", -6),
                              ArrScale(provider["pres"], Dec(1, -3)))
      [] OTHER ->
            PenmanEquation(ArrOffset(provider["temp"], Dec(27315, -2)), provider["rh"],
                           provider["ws"], RnAtCallArray,
                           ArrScale(provider["pres"], Dec(1, -3)), G)

\* The row of the dataset that belongs to the y coordinate c.
RowAtY(c) == CHOOSE j \in DOMAIN y : y[j] = c

Params == { param[n] : n \in DOMAIN param }

\* C15: every variable of param is exported once, with its rows reversed
\* once: row j of every timestep of the exported data holds the values of
\* the y coordinate j of the export geometry, whose y axis is ds.y reversed;
\* a variable the loop has not reached still has its rows in the order of
\* ds.y, and no variable is exported twice or skipped.
C15_RowsFollowGeometry ==
    /\ \A par \in Params : TimesApplied([op |-> "export", var |-> par]) <= 1
    /\ \A par \in DOMAIN exported :
        /\ InLog([op |-> "export", var |-> par])
        /\ \A t \in DOMAIN exported[par] :
            /\ Len(exported[par][t]) = Len(geometry.y)
            /\ \A j \in DOMAIN geometry.y :
                exported[par][t][j] = ValuesOf(par)[t][RowAtY(geometry.y[j])]
        /\ ds[par] = exported[par]
    /\ InLog([op |-> "geometry", var |-> "*"]) =>
        /\ geometry.y = Reverse(y)
        /\ \A par \in Params \ DOMAIN exported : ds[par] = ValuesOf(par)
    /\ Done => DOMAIN exported = Params

\* C15 witness: a complete run on a grid of at least two rows in which, for
\* every variable, the first and the last row of a timestep differ and the
\* first exported row is the last row of the dataset's order, at the lowest
\* y coordinate.
C15_Witness ==
    /\ Done
    /\ Len(y) >= 2
    /\ geometry.y[1] = y[Len(y)]
    /\ \A n \in 1 .. Len(y) - 1 : y[n] > y[n + 1]
    /\ \A par \in Params : \E t \in 1 .. NT :
        /\ ValuesOf(par)[t][1] # ValuesOf(par)[t][Len(y)]
        /\ exported[par][t][1] = ValuesOf(par)[t][Len(y)]

====
